---- MODULE Spec2Model ----
(***************************************************************************)
(* Model of the three-stage coarse -> mid -> fine beam search of           *)
(* src/Shrapnel.py (main, scan_stage, evaluate_combo, sum_F_bounds,        *)
(* frange, assign_stars).                                                  *)
(*                                                                         *)
(* Numbers.  Geometry values (SL, SW, ST, SS, X, Y) live on the 0.01 mm    *)
(* grid and are integers counting hundredths of a millimetre: the code     *)
(* keeps them on that grid itself (frange rounds every value to 6          *)
(* decimals and compares with a 1e-9 tolerance).  Forces and moments are   *)
(* Python floats; they are modelled as decimal floating-point numbers      *)
(* [m, e] (value m * 10^e, 1000 <= |m| <= 9999 or m = 0) and every         *)
(* arithmetic operation rounds its exact result to the nearest such        *)
(* number, ties to even, in the order in which the code performs the       *)
(* operations.  This is IEEE-754 arithmetic with a four-digit decimal      *)
(* significand instead of a 53-bit binary one.                             *)
(***************************************************************************)
EXTENDS Integers, Sequences, FiniteSets, TLC

(***************************************************************************)
(* Floating point                                                          *)
(***************************************************************************)
FZero == [m |-> 0, e |-> 0]

IAbs(n) == IF n < 0 THEN -n ELSE n

ISgn(n) == IF n < 0 THEN -1 ELSE 1

Pow10(k) == <<1, 10, 100, 1000, 10000, 100000, 1000000>>[k + 1]

\* number of decimal digits beyond four of a >= 10000
ExtraDigits(a) ==
  IF a < 100000 THEN 1
  ELSE IF a < 1000000 THEN 2
  ELSE IF a < 10000000 THEN 3
  ELSE IF a < 100000000 THEN 4
  ELSE IF a < 1000000000 THEN 5
  ELSE 6

\* the float nearest to n * 10^e (round half to even)
FNorm(n, e) ==
  LET a == IAbs(n) IN
  IF a = 0 THEN FZero
  ELSE IF a < 1000 THEN
    LET k == IF a < 10 THEN 3 ELSE IF a < 100 THEN 2 ELSE 1
    IN  [m |-> n * Pow10(k), e |-> e - k]
  ELSE IF a < 10000 THEN [m |-> n, e |-> e]
  ELSE
    LET k  == ExtraDigits(a)
        d  == Pow10(k)
        q  == a \div d
        r  == a % d
        q2 == IF 2 * r > d \/ (2 * r = d /\ q % 2 = 1) THEN q + 1 ELSE q
    IN  IF q2 = 10000 THEN [m |-> ISgn(n) * 1000, e |-> e + k + 1]
        ELSE [m |-> ISgn(n) * q2, e |-> e + k]

\* an integer as a float
Fl(n) == FNorm(n, 0)

\* a grid value (hundredths) as a float in millimetres
FC(n) == FNorm(n, -2)

FNeg(a) == [m |-> -a.m, e |-> a.e]

FAbs(a) == [m |-> IAbs(a.m), e |-> a.e]

FAdd(a, b) ==
  IF a.m = 0 THEN b
  ELSE IF b.m = 0 THEN a
  ELSE
    LET hi == IF a.e >= b.e THEN a ELSE b
        lo == IF a.e >= b.e THEN b ELSE a
        d  == hi.e - lo.e
    IN  IF d > 5 THEN hi
        ELSE FNorm(hi.m * Pow10(d) + lo.m, lo.e)

FSub(a, b) == FAdd(a, FNeg(b))

FMul(a, b) == FNorm(a.m * b.m, a.e + b.e)

\* a / b for b # 0; the remainder is kept as a sticky digit for rounding
FDiv(a, b) ==
  IF a.m = 0 THEN FZero
  ELSE
    LET num == IAbs(a.m) * 100000
        q   == num \div IAbs(b.m)
        r   == num % IAbs(b.m)
        n   == 10 * q + (IF r # 0 THEN 1 ELSE 0)
    IN  FNorm(ISgn(a.m) * ISgn(b.m) * n, a.e - b.e - 6)

\* x ** 3, evaluated as (x * x) * x
FCube(a) == FMul(FMul(a, a), a)

\* a < b: comparison is exact
FLt(a, b) ==
  IF a.m = 0 THEN b.m > 0
  ELSE IF b.m = 0 THEN a.m < 0
  ELSE IF a.m > 0 /\ b.m > 0 THEN a.e < b.e \/ (a.e = b.e /\ a.m < b.m)
  ELSE IF a.m < 0 /\ b.m < 0 THEN a.e > b.e \/ (a.e = b.e /\ a.m < b.m)
  ELSE a.m < 0

FLe(a, b) == a = b \/ FLt(a, b)

(***************************************************************************)
(* Geometry cost model: class Quad                                         *)
(***************************************************************************)
\* I = (SW * ST^3) / 12
inertia(SW, ST) == FDiv(FMul(FC(SW), FCube(FC(ST))), Fl(12))

\* F = (3 * G * I * SS) / SL^3, and 0 when a required dimension is 0
force(SL, SW, ST, SS, G) ==
  IF SL = 0 \/ SW = 0 \/ ST = 0 \/ SS = 0 \/ G = 0 THEN FZero
  ELSE FDiv(FMul(FMul(FMul(Fl(3), Fl(G)), inertia(SW, ST)), FC(SS)),
            FCube(FC(SL)))

moment_x(F, X) == FMul(F, FC(X))

moment_y(F, Y) == FMul(F, FC(Y))

(***************************************************************************)
(* State                                                                   *)
(***************************************************************************)
VARIABLES
  inp,            \* the submitted form: quadA..quadD, F_target, N_show
  pc,             \* where main is: "start", "scan", "ret", "done"
  stage,          \* the stage being run, 0 before the first
  args,           \* the arguments of the running scan_stage call
  pos,            \* loop position of scan_stage: seed, STv, SWv, SSv indices
  isl,            \* index of the next SL tuple, 0 before the prune test
  stage_results,  \* scan_stage: feasible results of this call
  seeds_out,      \* scan_stage: every candidate evaluated in this call
  all_results,    \* main: the pooled results
  seeds1,         \* main: seeds returned by stage 1
  seeds2,         \* main: seeds returned by stage 2
  shown,          \* the results displayed
  warned,         \* the "no solution" warning was displayed
  fr              \* a stand-alone run of frange: start, stop, step, x, vals, pc

vars == <<inp, pc, stage, args, pos, isl, stage_results, seeds_out,
          all_results, seeds1, seeds2, shown, warned, fr>>

(***************************************************************************)
(* Utility functions                                                       *)
(***************************************************************************)
IMax(a, b) == IF a >= b THEN a ELSE b

IMin(a, b) == IF a <= b THEN a ELSE b

\* frange: the loop test, the increment and the rounding of one iteration.
\* eps is the 1e-9 tolerance and q the 1e-6 rounding quantum, both in the
\* unit of x.  On the 0.01 mm grid of the search both are below the unit:
\* eps = 0 and q = 1.
FrCond(x, stop, eps) == x <= stop + eps

FrNext(x, step, eps) == x + (IF step # 0 THEN step ELSE eps)

FrRound(x, q) ==
  LET d == x \div q
      r == x % q
  IN  IF 2 * r > q \/ (2 * r = q /\ d % 2 = 1) THEN (d + 1) * q ELSE d * q

RECURSIVE frange_loop(_, _, _, _)
frange_loop(x, stop, step, vals) ==
  IF FrCond(x, stop, 0)
  THEN frange_loop(FrNext(x, step, 0), stop, step, Append(vals, FrRound(x, 1)))
  ELSE vals

frange(start, stop, step) == frange_loop(start, stop, step, <<>>)

\* assign_stars without the special case of {"ST"}
assign_stars_NoSTCase(modified_params) ==
  IF modified_params = {} THEN "*"
  ELSE IF "ST" \in modified_params THEN
    LET others == Cardinality(modified_params) - 1 IN
    IF others = 1 THEN "***" ELSE IF others = 2 THEN "**" ELSE "*"
  ELSE
    LET n == Cardinality(modified_params) IN
    IF n = 1 THEN "***" ELSE IF n = 2 THEN "**" ELSE "*"

assign_stars(modified_params) ==
  IF modified_params = {} THEN "*"
  ELSE IF modified_params = {"ST"} THEN "****"
  ELSE IF "ST" \in modified_params THEN
    LET others == Cardinality(modified_params) - 1 IN
    IF others = 1 THEN "***" ELSE IF others = 2 THEN "**" ELSE "*"
  ELSE
    LET n == Cardinality(modified_params) IN
    IF n = 1 THEN "***" ELSE IF n = 2 THEN "**" ELSE "*"

\* star_rank.get(s, 1)
star_rank(s) ==
  IF s = "****" THEN 4 ELSE IF s = "***" THEN 3 ELSE IF s = "**" THEN 2 ELSE 1

\* is_quad4_disabled_by_dims that never disables
is_quad4_disabled_by_dims_Never(q) == FALSE

\* all of |SL|, |SW|, |ST|, |SS| below 1e-12
is_quad4_disabled_by_dims(q) == q.SL = 0 /\ q.SW = 0 /\ q.ST = 0 /\ q.SS = 0

(***************************************************************************)
(* main: baselines and limits                                              *)
(***************************************************************************)
quadA == inp.quadA

quadB == inp.quadB

quadC == inp.quadC

quadD == inp.quadD

F_target == inp.F_target

N_show == inp.N_show

lower_bound == FMul(F_target, FNorm(95, -2))

upper_bound == FMul(F_target, FNorm(105, -2))

base_SW == quadA.SW

base_SS == quadA.SS

SL_bases == <<quadA.SL, quadB.SL, quadC.SL, quadD.SL>>

disable_D == is_quad4_disabled_by_dims(quadD)

MIN_SW == 300

MIN_SL == 500

MIN_SS == 30

ST_min == 30

ST_max == 50

RESULT_CAP == IMax(10, N_show * 3)

xy_tol == FNorm(5, -1)

quads == <<quadA, quadB, quadC>> \o (IF disable_D THEN <<>> ELSE <<quadD>>)

K == 12

(***************************************************************************)
(* main: sum_F_bounds and evaluate_combo                                   *)
(***************************************************************************)
SeqMin(s) == CHOOSE v \in {s[i] : i \in 1..Len(s)} : \A j \in 1..Len(s) : v <= s[j]

SeqMax(s) == CHOOSE v \in {s[i] : i \in 1..Len(s)} : \A j \in 1..Len(s) : v >= s[j]

\* one pass of the loop "for i, q in enumerate(quads)" and the passes after it
RECURSIVE sum_F_bounds_loop(_, _, _, _, _, _)
sum_F_bounds_loop(i, SWv, STv, SSv, SL_ranges, tot) ==
  IF i > Len(quads) THEN tot
  ELSE
    LET SL_list == SL_ranges[i]
        Cq == FDiv(FMul(FMul(FMul(Fl(quads[i].G), FC(SSv)), FC(SWv)),
                        FCube(FC(STv))), Fl(4))
    IN  IF SL_list = <<>> THEN
          sum_F_bounds_loop(i + 1, SWv, STv, SSv, SL_ranges, tot)
        ELSE IF SeqMin(SL_list) <= 0 \/ SeqMax(SL_list) <= 0 \/ Cq.m = 0 THEN
          sum_F_bounds_loop(i + 1, SWv, STv, SSv, SL_ranges, tot)
        ELSE
          sum_F_bounds_loop(i + 1, SWv, STv, SSv, SL_ranges,
            [total_min |-> FAdd(tot.total_min, FDiv(Cq, FCube(FC(SeqMax(SL_list))))),
             total_max |-> FAdd(tot.total_max, FDiv(Cq, FCube(FC(SeqMin(SL_list)))))])

sum_F_bounds(SWv, STv, SSv, SL_ranges) ==
  sum_F_bounds_loop(1, SWv, STv, SSv, SL_ranges,
                    [total_min |-> FZero, total_max |-> FZero])

\* the four Quad objects a candidate is evaluated on
opt(STv, SWv, SSv, SLs) ==
  << [X |-> quadA.X, Y |-> quadA.Y, SL |-> SLs[1], SW |-> SWv, ST |-> STv,
      SS |-> SSv, G |-> quadA.G],
     [X |-> quadB.X, Y |-> quadB.Y, SL |-> SLs[2], SW |-> SWv, ST |-> STv,
      SS |-> SSv, G |-> quadB.G],
     [X |-> quadC.X, Y |-> quadC.Y, SL |-> SLs[3], SW |-> SWv, ST |-> STv,
      SS |-> SSv, G |-> quadC.G],
     IF disable_D
     THEN [X |-> 0, Y |-> 0, SL |-> 0, SW |-> 0, ST |-> 0, SS |-> 0, G |-> 0]
     ELSE [X |-> quadD.X, Y |-> quadD.Y, SL |-> SLs[4], SW |-> SWv, ST |-> STv,
           SS |-> SSv, G |-> quadD.G] >>

Fi(q) == force(q.SL, q.SW, q.ST, q.SS, q.G)

\* totF, totXM, totYM accumulated over the four quadrants in order; F[i] is
\* the force of quadrant i
accumulate(o, F) ==
  [totF  |-> FAdd(FAdd(FAdd(FAdd(FZero, F[1]), F[2]), F[3]), F[4]),
   totXM |-> FAdd(FAdd(FAdd(FAdd(FZero, moment_x(F[1], o[1].X)),
                  moment_x(F[2], o[2].X)), moment_x(F[3], o[3].X)),
                  moment_x(F[4], o[4].X)),
   totYM |-> FAdd(FAdd(FAdd(FAdd(FZero, moment_y(F[1], o[1].Y)),
                  moment_y(F[2], o[2].Y)), moment_y(F[3], o[3].Y)),
                  moment_y(F[4], o[4].Y))]

totals(o) == accumulate(o, [i \in 1..4 |-> Fi(o[i])])

\* lower_bound <= totF <= upper_bound
InBand(totF) == FLe(lower_bound, totF) /\ FLe(totF, upper_bound)

\* InCentre with the test of allY left out
InCentre_XOnly(allX, allY) == FLe(FNeg(xy_tol), allX) /\ FLe(allX, xy_tol)

\* -xy_tol <= allX <= xy_tol and -xy_tol <= allY <= xy_tol
InCentre(allX, allY) ==
  /\ FLe(FNeg(xy_tol), allX) /\ FLe(allX, xy_tol)
  /\ FLe(FNeg(xy_tol), allY) /\ FLe(allY, xy_tol)

\* the set of parameters a candidate changes
modified_of(STv, SWv, SSv, SLs) ==
  LET enabled_idx == {1, 2, 3} \cup (IF disable_D THEN {} ELSE {4}) IN
  (IF STv - quadA.ST # 0 THEN {"ST"} ELSE {})
    \cup (IF SWv - base_SW # 0 THEN {"SW"} ELSE {})
    \cup (IF \E i \in enabled_idx : SLs[i] - SL_bases[i] # 0 THEN {"SL"} ELSE {})
    \cup (IF SSv - base_SS # 0 THEN {"SS"} ELSE {})

\* the filters of evaluate_combo applied to the accumulated totals t
accept(t, STv, SWv, SSv, SLs) ==
  LET diff == FAbs(FSub(t.totF, F_target))
  IN  IF ~InBand(t.totF) THEN [ok |-> FALSE, tup |-> <<>>, diff |-> diff]
      ELSE IF FLt(FAbs(t.totF), FNorm(1, -12)) THEN
        [ok |-> FALSE, tup |-> <<>>, diff |-> diff]
      ELSE
        LET allX == FDiv(t.totXM, t.totF)
            allY == FDiv(t.totYM, t.totF)
            modified == modified_of(STv, SWv, SSv, SLs)
        IN  IF ~InCentre(allX, allY) THEN
              [ok |-> FALSE, tup |-> <<>>, diff |-> diff]
            ELSE
              [ok |-> TRUE,
               tup |-> [ST |-> STv, SW |-> SWv, SLs |-> SLs, SS |-> SSv,
                        totF |-> t.totF, allX |-> allX, allY |-> allY,
                        stars |-> assign_stars(modified), modified |-> modified],
               diff |-> diff]

evaluate_combo(STv, SWv, SSv, SLs) ==
  accept(totals(opt(STv, SWv, SSv, SLs)), STv, SWv, SSv, SLs)

(***************************************************************************)
(* scan_stage(step_val, SS_step, SL_half_span, seeds, beam_local)          *)
(* a is the record of the call's arguments; seeds = <<>> stands for None   *)
(***************************************************************************)
\* build_SL_ranges; center_SLs = <<>> stands for None
build_SL_ranges(a, center_SLs) ==
  IF a.beam_local /\ center_SLs # <<>> THEN
    << frange(IMax(MIN_SL, center_SLs[1] - a.SL_half_span),
              center_SLs[1] + a.SL_half_span, a.step_val),
       frange(IMax(MIN_SL, center_SLs[2] - a.SL_half_span),
              center_SLs[2] + a.SL_half_span, a.step_val),
       frange(IMax(MIN_SL, center_SLs[3] - a.SL_half_span),
              center_SLs[3] + a.SL_half_span, a.step_val),
       IF disable_D THEN <<0>>
       ELSE frange(IMax(MIN_SL, center_SLs[4] - a.SL_half_span),
                   center_SLs[4] + a.SL_half_span, a.step_val) >>
  ELSE
    << frange(IMax(MIN_SL, SL_bases[1] - 50), SL_bases[1] + 50, a.step_val),
       frange(IMax(MIN_SL, SL_bases[2] - 50), SL_bases[2] + 50, a.step_val),
       frange(IMax(MIN_SL, SL_bases[3] - 50), SL_bases[3] + 50, a.step_val),
       IF disable_D THEN <<0>>
       ELSE frange(IMax(MIN_SL, SL_bases[4] - 50), SL_bases[4] + 50, a.step_val) >>

ST_candidates(a) == frange(ST_min, ST_max, a.step_val)

SW_candidates(a) == frange(IMax(MIN_SW, base_SW - 50), base_SW + 50, a.step_val)

SS_candidates(a) == frange(IMax(MIN_SS, base_SS - 20), base_SS + 20, a.SS_step)

\* the neighbourhood of one seed s = (sST, sSW, sSS, sSLs, _)
ST_pool(a, s) ==
  frange(IMax(ST_min, s.ST - a.step_val), IMin(ST_max, s.ST + a.step_val), a.step_val)

SW_pool(a, s) == frange(IMax(MIN_SW, s.SW - a.step_val), s.SW + a.step_val, a.step_val)

SS_pool(a, s) == frange(IMax(MIN_SS, s.SS - a.SS_step), s.SS + a.SS_step, a.SS_step)

\* "if beam_local and seeds": the local scan runs, else the global one
Beam(a) == a.beam_local /\ a.seeds # <<>>

\* number of passes of the outermost loop (the global scan is one pass)
NumSeeds(a) == IF Beam(a) THEN Len(a.seeds) ELSE 1

STs(a, si) == IF Beam(a) THEN ST_pool(a, a.seeds[si]) ELSE ST_candidates(a)

SWs(a, si) == IF Beam(a) THEN SW_pool(a, a.seeds[si]) ELSE SW_candidates(a)

SSs(a, si) == IF Beam(a) THEN SS_pool(a, a.seeds[si]) ELSE SS_candidates(a)

SLrs(a, si) ==
  IF Beam(a) THEN build_SL_ranges(a, a.seeds[si].SLs) ELSE build_SL_ranges(a, <<>>)

\* itertools.product(*SL_ranges): its length and its k-th tuple, k = 1, 2, ...
ProductSize(r) == Len(r[1]) * Len(r[2]) * Len(r[3]) * Len(r[4])

ProductAt(r, k) ==
  LET i0 == k - 1
      i4 == i0 % Len(r[4])
      i3 == (i0 \div Len(r[4])) % Len(r[3])
      i2 == (i0 \div (Len(r[4]) * Len(r[3]))) % Len(r[2])
      i1 == i0 \div (Len(r[4]) * Len(r[3]) * Len(r[2]))
  IN  <<r[1][i1 + 1], r[2][i2 + 1], r[3][i3 + 1], r[4][i4 + 1]>>

\* loop positions of the nested for loops; PosEnd: all loops are exhausted
PosEnd == [si |-> 0, it |-> 0, iw |-> 0, is |-> 0]

RECURSIVE FirstFrom(_, _)
FirstFrom(a, s) ==
  IF s > NumSeeds(a) THEN PosEnd
  ELSE IF STs(a, s) # <<>> /\ SWs(a, s) # <<>> /\ SSs(a, s) # <<>>
       THEN [si |-> s, it |-> 1, iw |-> 1, is |-> 1]
       ELSE FirstFrom(a, s + 1)

NextTriple(a, p) ==
  IF p.is < Len(SSs(a, p.si)) THEN [p EXCEPT !.is = p.is + 1]
  ELSE IF p.iw < Len(SWs(a, p.si)) THEN [p EXCEPT !.iw = p.iw + 1, !.is = 1]
  ELSE IF p.it < Len(STs(a, p.si)) THEN [p EXCEPT !.it = p.it + 1, !.iw = 1, !.is = 1]
  ELSE FirstFrom(a, p.si + 1)

CurST == STs(args, pos.si)[pos.it]

CurSW == SWs(args, pos.si)[pos.iw]

CurSS == SSs(args, pos.si)[pos.is]

CurRanges == SLrs(args, pos.si)

\* (F_sum_max < lower_bound) or (F_sum_min > upper_bound)
PruneTest(b) == FLt(b.total_max, lower_bound) \/ FLt(upper_bound, b.total_min)

\* CapReached with > in place of >=
CapReached_Late(sr) == Len(sr) > RESULT_CAP

\* len(stage_results) >= RESULT_CAP
CapReached(sr) == Len(sr) >= RESULT_CAP

\* entry of scan_stage up to the first pass of the loops
EnterScan(a) ==
  /\ args' = a
  /\ stage_results' = <<>>
  /\ seeds_out' = <<>>
  /\ pos' = FirstFrom(args', 1)
  /\ isl' = 0
  /\ pc' = IF pos' = PosEnd THEN "ret" ELSE "scan"

\* the (STv, SWv, SSv) pass is over: go to the next one or return
Advance ==
  /\ pos' = NextTriple(args, pos)
  /\ isl' = 0
  /\ pc' = IF pos' = PosEnd THEN "ret" ELSE "scan"

\* the prune test skips the SL product of this (STv, SWv, SSv)
PruneTriple ==
  /\ pc = "scan" /\ isl = 0
  /\ PruneTest(sum_F_bounds(CurSW, CurST, CurSS, CurRanges))
  /\ Advance
  /\ UNCHANGED <<inp, stage, args, stage_results, seeds_out, all_results,
                 seeds1, seeds2, shown, warned, fr>>

\* the prune test passes: the loop over the SL product starts
EnterProduct ==
  /\ pc = "scan" /\ isl = 0
  /\ ~PruneTest(sum_F_bounds(CurSW, CurST, CurSS, CurRanges))
  /\ IF ProductSize(CurRanges) = 0 THEN Advance
     ELSE isl' = 1 /\ UNCHANGED <<pos, pc>>
  /\ UNCHANGED <<inp, stage, args, stage_results, seeds_out, all_results,
                 seeds1, seeds2, shown, warned, fr>>

\* Evaluate with seeds_out.append left out of the seeded loop
Evaluate_NoBeamSeeds ==
  /\ pc = "scan" /\ isl >= 1
  /\ LET SLs  == ProductAt(CurRanges, isl)
         skip == disable_D /\ Len(SLs) = 4 /\ IAbs(SLs[4]) > 0
         ev   == evaluate_combo(CurST, CurSW, CurSS, SLs)
         sr   == IF ~skip /\ ev.ok THEN Append(stage_results, ev.tup)
                 ELSE stage_results
         so   == IF skip \/ Beam(args) THEN seeds_out
                 ELSE Append(seeds_out, [ST |-> CurST, SW |-> CurSW, SS |-> CurSS,
                                         SLs |-> SLs, diff |-> ev.diff])
     IN  /\ stage_results' = sr
         /\ seeds_out' = so
         /\ IF ~skip /\ CapReached(sr) THEN pc' = "ret" /\ UNCHANGED <<pos, isl>>
            ELSE IF isl < ProductSize(CurRanges)
                 THEN isl' = isl + 1 /\ UNCHANGED <<pos, pc>>
                 ELSE Advance
  /\ UNCHANGED <<inp, stage, args, all_results, seeds1, seeds2, shown, warned, fr>>

\* one pass of "for SLs in itertools.product(*SL_ranges)"
Evaluate ==
  /\ pc = "scan" /\ isl >= 1
  /\ LET SLs  == ProductAt(CurRanges, isl)
         skip == disable_D /\ Len(SLs) = 4 /\ IAbs(SLs[4]) > 0
         ev   == evaluate_combo(CurST, CurSW, CurSS, SLs)
         sr   == IF ~skip /\ ev.ok THEN Append(stage_results, ev.tup)
                 ELSE stage_results
         so   == IF skip THEN seeds_out
                 ELSE Append(seeds_out, [ST |-> CurST, SW |-> CurSW, SS |-> CurSS,
                                         SLs |-> SLs, diff |-> ev.diff])
     IN  /\ stage_results' = sr
         /\ seeds_out' = so
         /\ IF ~skip /\ CapReached(sr) THEN pc' = "ret" /\ UNCHANGED <<pos, isl>>
            ELSE IF isl < ProductSize(CurRanges)
                 THEN isl' = isl + 1 /\ UNCHANGED <<pos, pc>>
                 ELSE Advance
  /\ UNCHANGED <<inp, stage, args, all_results, seeds1, seeds2, shown, warned, fr>>

(***************************************************************************)
(* main: the three stages and the display                                  *)
(***************************************************************************)
\* sorted(seeds, key=lambda s: s[4]); SortSeq is a stable insertion sort,
\* as Python's sorted is stable
SeedLt(s1, s2) == FLt(s1.diff, s2.diff)

sort_seeds(sds) == SortSeq(sds, SeedLt)

\* key=lambda x: (-star_rank.get(x[7], 1), abs(x[4] - F_target))
RankKey(x) == <<-star_rank(x.stars), FAbs(FSub(x.totF, F_target))>>

\* comparison of two key tuples
KeyLt(a, b) == a[1] < b[1] \/ (a[1] = b[1] /\ FLt(a[2], b[2]))

\* RankLt with the star rank dropped from the key
RankLt_ErrorOnly(x1, x2) == FLt(RankKey(x1)[2], RankKey(x2)[2])

RankLt(x1, x2) == KeyLt(RankKey(x1), RankKey(x2))

sort_results(rs) == SortSeq(rs, RankLt)

\* Slice that keeps one entry more
Slice_OneMore(s, n) == SubSeq(s, 1, IMin(n + 1, Len(s)))

\* s[:n]
Slice(s, n) == SubSeq(s, 1, IMin(n, Len(s)))

NoArgs == [step_val |-> 0, SS_step |-> 0, SL_half_span |-> 0, seeds |-> <<>>,
           beam_local |-> FALSE]

\* Stage 1: coarse global scan
Stage1Call ==
  /\ pc = "start"
  /\ all_results' = <<>>
  /\ stage' = 1
  /\ EnterScan([step_val |-> 10, SS_step |-> 10, SL_half_span |-> 50,
                seeds |-> <<>>, beam_local |-> FALSE])
  /\ UNCHANGED <<inp, seeds1, seeds2, shown, warned, fr>>

\* res1 is pooled, the K best seeds are chosen, stage 2 is called
Stage2Call ==
  /\ pc = "ret" /\ stage = 1
  /\ all_results' = all_results \o stage_results
  /\ seeds1' = seeds_out
  /\ stage' = 2
  /\ LET seeds1_sorted == Slice(sort_seeds(seeds_out), K)
         use_beam_mid  == Len(seeds1_sorted) > 0
     IN  IF use_beam_mid
         THEN EnterScan([step_val |-> 5, SS_step |-> 5, SL_half_span |-> 25,
                         seeds |-> seeds1_sorted, beam_local |-> TRUE])
         ELSE EnterScan([step_val |-> 5, SS_step |-> 5, SL_half_span |-> 50,
                         seeds |-> <<>>, beam_local |-> FALSE])
  /\ UNCHANGED <<inp, seeds2, shown, warned, fr>>

\* Stage3Call with the step of stage 2 left in the seeded call
Stage3Call_SameStep ==
  /\ pc = "ret" /\ stage = 2
  /\ all_results' = all_results \o stage_results
  /\ seeds2' = seeds_out
  /\ stage' = 3
  /\ LET seeds2_sorted == Slice(sort_seeds(IF seeds_out # <<>> THEN seeds_out
                                           ELSE seeds1), K)
         use_beam_fine == Len(seeds2_sorted) > 0
     IN  IF use_beam_fine
         THEN EnterScan([step_val |-> 5, SS_step |-> 5, SL_half_span |-> 15,
                         seeds |-> seeds2_sorted, beam_local |-> TRUE])
         ELSE EnterScan([step_val |-> 2, SS_step |-> 5, SL_half_span |-> 50,
                         seeds |-> <<>>, beam_local |-> FALSE])
  /\ UNCHANGED <<inp, seeds1, shown, warned, fr>>

\* res2 is pooled, the K best seeds are chosen, stage 3 is called
Stage3Call ==
  /\ pc = "ret" /\ stage = 2
  /\ all_results' = all_results \o stage_results
  /\ seeds2' = seeds_out
  /\ stage' = 3
  /\ LET seeds2_sorted == Slice(sort_seeds(IF seeds_out # <<>> THEN seeds_out
                                           ELSE seeds1), K)
         use_beam_fine == Len(seeds2_sorted) > 0
     IN  IF use_beam_fine
         THEN EnterScan([step_val |-> 2, SS_step |-> 5, SL_half_span |-> 15,
                         seeds |-> seeds2_sorted, beam_local |-> TRUE])
         ELSE EnterScan([step_val |-> 2, SS_step |-> 5, SL_half_span |-> 50,
                         seeds |-> <<>>, beam_local |-> FALSE])
  /\ UNCHANGED <<inp, seeds1, shown, warned, fr>>

\* res3 is pooled; the pool is ranked and its first N_show entries are shown
Display ==
  /\ pc = "ret" /\ stage = 3
  /\ LET pool == all_results \o stage_results IN
     IF pool = <<>>
     THEN /\ all_results' = pool
          /\ warned' = TRUE
          /\ shown' = <<>>
     ELSE /\ all_results' = sort_results(pool)
          /\ warned' = FALSE
          /\ shown' = Slice(sort_results(pool), N_show)
  /\ pc' = "done"
  /\ UNCHANGED <<inp, stage, args, pos, isl, stage_results, seeds_out,
                 seeds1, seeds2, fr>>

(***************************************************************************)
(* main: the baseline totals shown before the search                       *)
(***************************************************************************)
\* round(F, 6)
FRound6(a) ==
  IF a.m = 0 \/ a.e >= -6 THEN a
  ELSE
    LET sh == -6 - a.e IN
    IF sh > 4 THEN FZero
    ELSE
      LET d  == Pow10(sh)
          q  == IAbs(a.m) \div d
          r  == IAbs(a.m) % d
          q2 == IF 2 * r > d \/ (2 * r = d /\ q % 2 = 1) THEN q + 1 ELSE q
      IN  FNorm(ISgn(a.m) * q2, -6)

\* total_F accumulated over the four input quadrants
total_F(qA, qB, qC, qD) ==
  FAdd(FAdd(FAdd(FAdd(FZero, FRound6(Fi(qA))), FRound6(Fi(qB))),
            FRound6(Fi(qC))), FRound6(Fi(qD)))

(***************************************************************************)
(* The submitted forms explored                                            *)
(***************************************************************************)
MaxN == 6

NChoices == {1, MaxN}

Quad(X, Y, SL, SW, ST, SS, G) ==
  [X |-> X, Y |-> Y, SL |-> SL, SW |-> SW, ST |-> ST, SS |-> SS, G |-> G]

Form(qA, qB, qC, qD, Ft, N) ==
  [quadA |-> qA, quadB |-> qB, quadC |-> qC, quadD |-> qD,
   F_target |-> Ft, N_show |-> N]

\* four identical quadrants at anchors (+-ax, +-ay)
Square(ax, ay, SL, SW, ST, SS, G, Ft, N) ==
  Form(Quad(ax, ay, SL, SW, ST, SS, G), Quad(-ax, ay, SL, SW, ST, SS, G),
       Quad(-ax, -ay, SL, SW, ST, SS, G), Quad(ax, -ay, SL, SW, ST, SS, G), Ft, N)

\* the default form with the target set to the baseline's own total force
FormDefault(N) ==
  LET q == Quad(1000, 1000, 2000, 500, 30, 50, 18763) IN
  Square(1000, 1000, 2000, 500, 30, 50, 18763, total_F(q, q, q, q), N)

\* all dimensions on their floors, anchors 20 mm out, target 2.5 % below the
\* force of the baseline geometry at ST = 0.4
FormFloor(N) ==
  Square(2000, 2000, 500, 300, 30, 30, 18763,
         FMul(FNorm(975, -3), FMul(Fl(4), force(500, 300, 40, 30, 18763))), N)

\* quadrant 4 left empty, three balanced anchors, target = baseline total
FormThree(N) ==
  LET a == Quad(1000, 1000, 2000, 500, 30, 50, 18763)
      b == Quad(-2000, 0, 2000, 500, 30, 50, 18763)
      c == Quad(1000, -1000, 2000, 500, 30, 50, 18763)
      d == Quad(1000, -1000, 0, 0, 0, 0, 18763)
  IN  Form(a, b, c, d, total_F(a, b, c, d), N)

\* quadrant 2 left empty
FormSecondEmpty(N) ==
  LET a == Quad(1000, 1000, 500, 250, 30, 10, 18763)
      b == Quad(-1000, 1000, 0, 0, 0, 0, 18763)
  IN  Form(a, b, [a EXCEPT !.X = -1000, !.Y = -1000], [a EXCEPT !.Y = -1000],
           FMul(Fl(2), force(500, 300, 40, 30, 18763)), N)

\* baselines below the floors (one-point windows), quadrant 4 left empty,
\* target reachable only on the fine grid (ST = 0.32)
FormFine(N) ==
  LET a == Quad(30000, 0, 454, 250, 30, 10, 18763)
      b == Quad(-30000, 0, 454, 250, 30, 10, 18763)
      c == Quad(0, 0, 450, 250, 30, 10, 18763)
      d == Quad(0, 0, 0, 0, 0, 0, 0)
  IN  Form(a, b, c, d, FMul(Fl(3), force(500, 300, 32, 30, 18763)), N)

\* the same geometry with a target out of reach
FormNone(N) == [FormFine(N) EXCEPT !.F_target = Fl(1000)]

\* one-point windows on the floors, quadrant 4 left empty, and a target whose
\* lower band edge is the force of the floor geometry at ST = 0.3
FormEdge(N) ==
  LET a == Quad(30000, 0, 450, 250, 30, 10, 18250)
      b == Quad(-30000, 0, 450, 250, 30, 10, 18250)
      c == Quad(0, 0, 450, 250, 30, 10, 18250)
      d == Quad(0, 0, 0, 0, 0, 0, 0)
  IN  Form(a, b, c, d, FNorm(2801, -3), N)

\* quadrant 4 left empty, three anchors that balance only for equal forces,
\* SL_1 with a two-point window and the target on the floor geometry: stage 1
\* emits two seeds whose stage-2 neighbourhoods overlap
FormOverlap(N) ==
  LET a == Quad(0, 20000, 460, 250, 30, 10, 18763)
      b == Quad(-10000, -10000, 450, 250, 30, 10, 18763)
      c == Quad(10000, -10000, 450, 250, 30, 10, 18763)
      d == Quad(0, 0, 0, 0, 0, 0, 0)
  IN  Form(a, b, c, d, FMul(Fl(3), force(500, 300, 30, 30, 18763)), N)

Inputs ==
  UNION {{FormDefault(N), FormFloor(N), FormThree(N), FormSecondEmpty(N),
          FormFine(N), FormNone(N), FormEdge(N)} : N \in NChoices}
    \cup {FormOverlap(1)}

(***************************************************************************)
(* A stand-alone run of frange(start, stop, step), one loop pass per step. *)
(* The unit is 1e-9 mm: FrEps is the tolerance, FrQuantum is round(x, 6).  *)
(***************************************************************************)
FrEps == 1

FrQuantum == 1000

MaxIter == 6

FrStarts == {0, 1000, 2000, 3000}

FrSteps == {-1000, 0, 1000, 2000}

FrIdle == [start |-> 0, stop |-> 0, step |-> 0, x |-> 0, vals |-> <<>>, pc |-> "idle"]

\* "while x <= stop + 1e-9": one pass of the body
FrIter ==
  /\ fr.pc = "loop"
  /\ FrCond(fr.x, fr.stop, FrEps)
  /\ Len(fr.vals) < MaxIter
  /\ fr' = [fr EXCEPT !.vals = Append(fr.vals, FrRound(fr.x, FrQuantum)),
                      !.x = FrNext(fr.x, fr.step, FrEps)]
  /\ UNCHANGED <<inp, pc, stage, args, pos, isl, stage_results, seeds_out,
                 all_results, seeds1, seeds2, shown, warned>>

\* the loop test fails: return vals
FrExit ==
  /\ fr.pc = "loop"
  /\ ~FrCond(fr.x, fr.stop, FrEps)
  /\ fr' = [fr EXCEPT !.pc = "done"]
  /\ UNCHANGED <<inp, pc, stage, args, pos, isl, stage_results, seeds_out,
                 all_results, seeds1, seeds2, shown, warned>>

(***************************************************************************)
(* Specifications                                                          *)
(***************************************************************************)
InitCommon ==
  /\ stage = 0
  /\ args = NoArgs
  /\ pos = PosEnd
  /\ isl = 0
  /\ stage_results = <<>>
  /\ seeds_out = <<>>
  /\ all_results = <<>>
  /\ seeds1 = <<>>
  /\ seeds2 = <<>>
  /\ shown = <<>>
  /\ warned = FALSE

Init ==
  /\ inp \in Inputs
  /\ pc = "start"
  /\ fr = FrIdle
  /\ InitCommon

Next ==
  \/ Stage1Call
  \/ PruneTriple
  \/ EnterProduct
  \/ Evaluate
  \/ Stage2Call
  \/ Stage3Call
  \/ Display

Spec == Init /\ [][Next]_vars

InitFrange ==
  /\ inp = FormNone(1)
  /\ pc = "idle"
  /\ fr \in {[start |-> a, stop |-> b, step |-> s, x |-> a, vals |-> <<>>,
              pc |-> "loop"] : a \in FrStarts, b \in FrStarts, s \in FrSteps}
  /\ InitCommon

NextFrange == FrIter \/ FrExit

SpecFrange == InitFrange /\ [][NextFrange]_vars

(***************************************************************************)
(* Properties                                                              *)
(***************************************************************************)
StarCount(r) ==
  CASE r.stars = "****" -> 4 [] r.stars = "***" -> 3 [] r.stars = "**" -> 2
    [] OTHER -> 1

ForceError(r) == FAbs(FSub(r.totF, inp.F_target))

\* the band and centroid conditions, written out for a result record
WithinBand(f) ==
  /\ FLe(FMul(inp.F_target, FNorm(95, -2)), f)
  /\ FLe(f, FMul(inp.F_target, FNorm(105, -2)))

WithinCentre(x, y) == FLe(FAbs(x), FNorm(5, -1)) /\ FLe(FAbs(y), FNorm(5, -1))

IsFeasible(r) ==
  LET t == totals(opt(r.ST, r.SW, r.SS, r.SLs)) IN
  /\ r.totF = t.totF
  /\ WithinBand(r.totF)
  /\ r.totF.m # 0
  /\ r.allX = FDiv(t.totXM, t.totF)
  /\ r.allY = FDiv(t.totYM, t.totF)
  /\ WithinCentre(r.allX, r.allY)

\* C1: every result in a stage's feasible list and in the pooled list has its
\* total force within [0.95*F_target, 1.05*F_target], a non-zero total force,
\* and |X_center| <= 0.5 and |Y_center| <= 0.5; no candidate failing one of
\* these is in a feasible list at any time.
C1_ResultsFeasible ==
  /\ \A i \in 1..Len(stage_results) : IsFeasible(stage_results[i])
  /\ \A i \in 1..Len(all_results) : IsFeasible(all_results[i])

\* a later stage holds results, the pool holds results, and the stage has
\* evaluated a candidate inside the force band whose centroid is off
C1_Witness ==
  /\ stage >= 2
  /\ Len(all_results) > 0
  /\ Len(stage_results) > 0
  /\ \E i \in 1..Len(seeds_out) :
       LET s == seeds_out[i]
           t == totals(opt(s.ST, s.SW, s.SS, s.SLs))
       IN  /\ WithinBand(t.totF)
           /\ ~WithinCentre(FDiv(t.totXM, t.totF), FDiv(t.totYM, t.totF))
           /\ \A j \in 1..Len(stage_results) :
                ~(/\ stage_results[j].ST = s.ST /\ stage_results[j].SW = s.SW
                  /\ stage_results[j].SS = s.SS /\ stage_results[j].SLs = s.SLs)

\* C2: the displayed results are ordered by descending star rating, ties
\* broken by ascending |total force - F_target|: for positions i < j either
\* stars(i) > stars(j), or the stars are equal and error(i) <= error(j).
C2_OutputOrdered ==
  \A i, j \in 1..Len(shown) :
    i < j =>
      \/ StarCount(shown[i]) > StarCount(shown[j])
      \/ /\ StarCount(shown[i]) = StarCount(shown[j])
         /\ FLe(ForceError(shown[i]), ForceError(shown[j]))

\* an output in which a 4-star result precedes a result with fewer stars and
\* a strictly smaller force error
C2_Witness ==
  /\ pc = "done"
  /\ \E i, j \in 1..Len(shown) :
       /\ i < j
       /\ StarCount(shown[i]) = 4
       /\ StarCount(shown[j]) < 4
       /\ FLt(ForceError(shown[j]), ForceError(shown[i]))

\* C3: the number of results shown is min(N, size of the pool); the output is
\* the first N entries of the ranked pool, never padded, and it is empty, with
\* the "no solution" warning, exactly when the pool of the stages is empty.
C3_ShownCount ==
  pc = "done" =>
    /\ Len(shown) = (IF inp.N_show < Len(all_results) THEN inp.N_show
                     ELSE Len(all_results))
    /\ \A i \in 1..Len(shown) : shown[i] = all_results[i]
    /\ (shown = <<>>) <=> (all_results = <<>>)
    /\ warned <=> (all_results = <<>>)

\* fewer feasible results than requested: all of them are shown
C3_Witness ==
  /\ pc = "done"
  /\ Len(all_results) > 0
  /\ Len(all_results) < inp.N_show
  /\ Len(shown) = Len(all_results)
  /\ ~warned

\* C4: within one stage the feasible list never holds more than
\* max(10, 3*N) entries, and once it holds that many the stage has returned:
\* the scan, which alone evaluates candidates, is no longer running.
C4_StageCap ==
  LET cap == IF 3 * inp.N_show > 10 THEN 3 * inp.N_show ELSE 10 IN
  /\ Len(stage_results) <= cap
  /\ pc = "scan" => Len(stage_results) < cap

\* a later stage returned on the cap with SL tuples or triples left to
\* enumerate, the pool already holding results of an earlier stage
C4_Witness ==
  LET cap == IF 3 * inp.N_show > 10 THEN 3 * inp.N_show ELSE 10 IN
  /\ pc = "ret"
  /\ stage >= 2
  /\ Len(all_results) > 0
  /\ Len(stage_results) = cap
  /\ pos # PosEnd
  /\ \/ isl < ProductSize(CurRanges)
     \/ NextTriple(args, pos) # PosEnd

\* the form of C5: four identical quadrants within bounds, ST on the coarse
\* grid, anchors at (+-10, +-10), target = the baseline's own total force
BaselineForm ==
  /\ inp.quadA.SL > 500 /\ inp.quadA.SW > 300 /\ inp.quadA.SS > 30
  /\ inp.quadA.ST \in {30, 40, 50}
  /\ inp.quadA.X = 1000 /\ inp.quadA.Y = 1000
  /\ inp.quadB = [inp.quadA EXCEPT !.X = -1000]
  /\ inp.quadC = [inp.quadA EXCEPT !.X = -1000, !.Y = -1000]
  /\ inp.quadD = [inp.quadA EXCEPT !.Y = -1000]
  /\ inp.F_target = total_F(inp.quadA, inp.quadB, inp.quadC, inp.quadD)

\* C5: for four identical quadrants within bounds, symmetric anchors and
\* F_target equal to the baseline's own total force, the unmodified baseline
\* (ST, SW, SS and all four SL equal to the inputs) is in the pooled feasible
\* results with an empty modified set and one star.
C5_BaselineInPool ==
  (pc = "done" /\ BaselineForm) =>
    \E i \in 1..Len(all_results) :
      /\ all_results[i].ST = inp.quadA.ST
      /\ all_results[i].SW = inp.quadA.SW
      /\ all_results[i].SS = inp.quadA.SS
      /\ all_results[i].SLs = <<inp.quadA.SL, inp.quadB.SL, inp.quadC.SL,
                                inp.quadD.SL>>
      /\ all_results[i].modified = {}
      /\ all_results[i].stars = "*"

AllZero(q) == q.SL = 0 /\ q.SW = 0 /\ q.ST = 0 /\ q.SS = 0

InputQuad(i) ==
  CASE i = 1 -> inp.quadA [] i = 2 -> inp.quadB [] i = 3 -> inp.quadC
    [] OTHER -> inp.quadD

Floor(lo, v) == IF v > lo THEN v ELSE lo

\* C6: every candidate evaluated in any stage lies within its floor-clamped
\* baseline window: ST in [0.3, 0.5], SW in [max(3, SW0 - 0.5), SW0 + 0.5],
\* SS in [max(0.3, SS0 - 0.2), SS0 + 0.2] and, for each enabled quadrant,
\* SL_i in [max(5, SL0_i - 0.5), SL0_i + 0.5].
C6_WithinBaselineWindows ==
  \A k \in 1..Len(seeds_out) :
    LET s == seeds_out[k] IN
    /\ 30 <= s.ST /\ s.ST <= 50
    /\ Floor(300, inp.quadA.SW - 50) <= s.SW /\ s.SW <= inp.quadA.SW + 50
    /\ Floor(30, inp.quadA.SS - 20) <= s.SS /\ s.SS <= inp.quadA.SS + 20
    /\ \A i \in 1..4 :
         ~AllZero(InputQuad(i)) =>
           /\ Floor(500, InputQuad(i).SL - 50) <= s.SLs[i]
           /\ s.SLs[i] <= InputQuad(i).SL + 50

\* the SL tuples of smallest and of largest SL of a product of ranges
ShortestTuple(r) == <<r[1][1], r[2][1], r[3][1], r[4][1]>>

LongestTuple(r) ==
  <<r[1][Len(r[1])], r[2][Len(r[2])], r[3][Len(r[3])], r[4][Len(r[4])]>>

ForceOf(SLs) == totals(opt(CurST, CurSW, CurSS, SLs)).totF

Encloses(b, f) == FLe(b.total_min, f) /\ FLe(f, b.total_max)

StarTable(S) ==
  IF S = {} THEN 1
  ELSE IF S = {"ST"} THEN 4
  ELSE IF "ST" \in S THEN 4 - (Cardinality(S) - 1)
  ELSE 4 - Cardinality(S)

StarString(n) ==
  CASE n = 4 -> "****" [] n = 3 -> "***" [] n = 2 -> "**" [] OTHER -> "*"

\* C8: assign_stars maps every subset of {SL, SW, ST, SS} to the rating of
\* the star table ({} -> 1, {ST} -> 4, ST plus k others -> 4-k, k parameters
\* without ST -> 4-k), and every result's rating is assign_stars of its
\* modified-parameter set.
C8_StarTable ==
  /\ \A S \in SUBSET {"SL", "SW", "ST", "SS"} :
       assign_stars(S) = StarString(StarTable(S))
  /\ \A i \in 1..Len(stage_results) :
       stage_results[i].stars = StarString(StarTable(stage_results[i].modified))
  /\ \A i \in 1..Len(all_results) :
       all_results[i].stars = StarString(StarTable(all_results[i].modified))

\* a final pool that holds a result changing ST alone (4 stars) next to
\* results changing ST and one other (3 stars) and ST and two others (2 stars)
C8_Witness ==
  /\ pc = "done"
  /\ \E i, j, k \in 1..Len(all_results) :
       /\ all_results[i].modified = {"ST"} /\ all_results[i].stars = "****"
       /\ "ST" \in all_results[j].modified
       /\ Cardinality(all_results[j].modified) = 2 /\ all_results[j].stars = "***"
       /\ "ST" \in all_results[k].modified
       /\ Cardinality(all_results[k].modified) = 3 /\ all_results[k].stars = "**"

\* C9: frange(a, b, s) terminates; for s > 0 the returned sequence is
\* non-decreasing, starts at a when a <= b, and stays within b plus the
\* tolerance; for s <= 0 it never holds more than one element and, when
\* a <= b, the loop ends with exactly one.
C9_Frange ==
  fr.pc \in {"loop", "done"} =>
    /\ fr.step > 0 =>
         /\ \A i \in 1..Len(fr.vals) : fr.vals[i] <= fr.stop + FrEps
         /\ \A i \in 1..(Len(fr.vals) - 1) : fr.vals[i] <= fr.vals[i + 1]
         /\ (fr.start <= fr.stop /\ fr.vals # <<>>) => fr.vals[1] = fr.start
         /\ (fr.start <= fr.stop /\ fr.pc = "done") => fr.vals # <<>>
         /\ Len(fr.vals) <= (IF fr.start <= fr.stop
                             THEN (fr.stop + FrEps - fr.start) \div fr.step + 1
                             ELSE 0)
    /\ fr.step <= 0 =>
         /\ Len(fr.vals) <= 1
         /\ (fr.start <= fr.stop /\ fr.pc = "done") => Len(fr.vals) = 1

\* C10 as stated, for any quadrant 1..4: while a triple is enumerated, a
\* quadrant whose input SL, SW, ST and SS are all zero has its SL pinned to 0
\* (the one-value range <<0>>), the other quadrants' SL ranges are swept
\* (non-empty), and every evaluated candidate has the quadrant's SL, force
\* and moments equal to 0.
C10_AnyQuadrantDisabled ==
  \A q \in 1..4 :
    AllZero(InputQuad(q)) =>
      /\ (pc = "scan" /\ pos # PosEnd) =>
           /\ CurRanges[q] = <<0>>
           /\ \A i \in 1..4 : ~AllZero(InputQuad(i)) => CurRanges[i] # <<>>
      /\ \A k \in 1..Len(seeds_out) :
           LET s == seeds_out[k]
               o == opt(s.ST, s.SW, s.SS, s.SLs)
           IN  /\ s.SLs[q] = 0
               /\ Fi(o[q]) = FZero
               /\ moment_x(Fi(o[q]), o[q].X) = FZero
               /\ moment_y(Fi(o[q]), o[q].Y) = FZero

\* C10 for quadrant 4 alone: when the input SL, SW, ST and SS of quadrant 4
\* are all zero, its SL range is the one value 0 while the ranges of
\* quadrants 1..3 are the swept windows, and every evaluated candidate has
\* SL_4 = 0 with zero force and moments for quadrant 4, the totals being
\* those of quadrants 1..3 (a candidate is checked in the state that follows
\* its evaluation).  A quadrant 1..3 with all-zero input is not
\* disabled: its SL range is empty, no candidate is evaluated and the run
\* ends with the "no solution" warning.
C10_Quad4Disabled ==
  /\ AllZero(inp.quadD) =>
    /\ (pc = "scan" /\ pos # PosEnd) =>
         /\ CurRanges[4] = <<0>>
         /\ \A i \in 1..3 :
              CurRanges[i] =
                LET c == IF args.beam_local
                         THEN args.seeds[pos.si].SLs[i] ELSE InputQuad(i).SL
                    h == IF args.beam_local THEN args.SL_half_span ELSE 50
                IN  frange(Floor(500, c - h), c + h, args.step_val)
    /\ \A k \in {Len(seeds_out)} \ {0} :
         LET s == seeds_out[k]
             o == opt(s.ST, s.SW, s.SS, s.SLs)
             t == totals(o)
         IN  /\ s.SLs[4] = 0
             /\ Fi(o[4]) = FZero
             /\ moment_x(Fi(o[4]), o[4].X) = FZero
             /\ moment_y(Fi(o[4]), o[4].Y) = FZero
             /\ t.totF = FAdd(FAdd(Fi(o[1]), Fi(o[2])), Fi(o[3]))
  /\ \A q \in 1..3 :
       AllZero(InputQuad(q)) =>
         /\ (pc = "scan" /\ pos # PosEnd) => CurRanges[q] = <<>>
         /\ seeds_out = <<>> /\ stage_results = <<>>
         /\ pc = "done" => (warned /\ shown = <<>>)

\* quadrant 4 is empty, candidates with different SL_1..SL_3 have been
\* evaluated and a feasible result with SL_4 = 0 has been collected
C10_Witness ==
  /\ AllZero(inp.quadD)
  /\ ~AllZero(inp.quadA) /\ ~AllZero(inp.quadB) /\ ~AllZero(inp.quadC)
  /\ \E i, j \in 1..Len(seeds_out) :
       /\ seeds_out[i].SLs[4] = 0 /\ seeds_out[j].SLs[4] = 0
       /\ seeds_out[i].SLs[1] # seeds_out[j].SLs[1]
       /\ seeds_out[i].SLs[3] # seeds_out[j].SLs[3]
  /\ \E i \in 1..Len(stage_results) : stage_results[i].SLs[4] = 0



(***************************************************************************)
(* Beam selection between the stages                                       *)
(***************************************************************************)
\* the (ST, SW, SS, SL1..SL4) assignment of a seed
Assignment(s) == <<s.ST, s.SW, s.SS, s.SLs>>

\* the number of positions of the list sds that hold the seed s
Occurrences(sds, s) == Cardinality({i \in 1..Len(sds) : sds[i] = s})

\* the seeds emitted by the stage before the running one
PreviousSeeds == IF stage = 2 THEN seeds1 ELSE seeds2

HandedSeeds == stage \in {2, 3} /\ args.beam_local

\* C12: the seed list handed to stage 2 and to stage 3 holds at most K = 12
\* seeds, they are seeds of the previous stage, no seed of the previous stage
\* left unselected has a strictly smaller force error than a selected one, and
\* the selected seeds are pairwise distinct (ST, SW, SS, SL1..SL4) assignments.
C12_BeamSelection ==
  HandedSeeds =>
    /\ Len(args.seeds) <= K
    /\ Len(args.seeds) = IMin(K, Len(PreviousSeeds))
    /\ \A i \in 1..Len(args.seeds) :
         Occurrences(args.seeds, args.seeds[i])
           <= Occurrences(PreviousSeeds, args.seeds[i])
    /\ \A j \in 1..Len(PreviousSeeds) :
         Occurrences(args.seeds, PreviousSeeds[j])
             < Occurrences(PreviousSeeds, PreviousSeeds[j])
           => \A i \in 1..Len(args.seeds) :
                ~FLt(PreviousSeeds[j].diff, args.seeds[i].diff)
    /\ \A i, j \in 1..Len(args.seeds) :
         i < j => Assignment(args.seeds[i]) # Assignment(args.seeds[j])


(***************************************************************************)
(* Refinement from stage to stage                                          *)
(***************************************************************************)
\* a step of main that ends one stage and calls the next
NextStage == stage \in {1, 2} /\ stage' = stage + 1

\* C13: each of the stages coarse -> mid -> fine is called with a strictly
\* smaller step for ST, SW and SL (step_val) and for SS (SS_step) and with a
\* strictly narrower SL half-span than the stage before it, also when the
\* stage is a global pass.
C13_MonotoneRefinement ==
  [][NextStage =>
       /\ args'.step_val < args.step_val
       /\ args'.SS_step < args.SS_step
       /\ args'.SL_half_span < args.SL_half_span]_vars

\* C13 as the code has it: the step of ST, SW and SL strictly decreases from
\* stage to stage; the SS step decreases from stage 1 to stage 2 and is the
\* same in stages 2 and 3; the SL half-span is strictly narrower than that of
\* the stage before when the stage is a seeded local pass, and is that of
\* stage 1 when it is a global pass.
C13_Refinement ==
  [][NextStage =>
       /\ args'.step_val < args.step_val
       /\ IF stage = 1 THEN args'.SS_step < args.SS_step
                       ELSE args'.SS_step = args.SS_step
       /\ IF args'.beam_local
          THEN args'.SL_half_span < args.SL_half_span
          ELSE args'.SL_half_span = 50 /\ args'.seeds = <<>>]_vars

\* the fine stage runs as a seeded pass at step 0.02 with the SS step 0.05 of
\* the mid stage and half-span 0.15, after a seeded mid stage that emitted
\* seeds
C13_Witness ==
  /\ stage = 3 /\ pc = "scan"
  /\ args.beam_local /\ args.seeds # <<>>
  /\ args.step_val = 2 /\ args.SS_step = 5 /\ args.SL_half_span = 15
  /\ seeds1 # <<>> /\ seeds2 # <<>>


(***************************************************************************)
(* Seeded or global pass                                                   *)
(***************************************************************************)
\* the running stage scans the neighbourhoods of seeds
SeededPass == args.beam_local /\ args.seeds # <<>>

Elements(s) == {s[i] : i \in 1..Len(s)}

\* the step of ST, SW and SL of the mid and of the fine stage
OwnResolution == IF stage = 2 THEN 5 ELSE 2

\* the running stage sweeps the windows around the input values on its own
\* grid
GlobalPass ==
  /\ ~SeededPass
  /\ args.step_val = OwnResolution
  /\ (pc = "scan" /\ pos # PosEnd) =>
       /\ CurST \in Elements(frange(30, 50, OwnResolution))
       /\ CurSW \in Elements(frange(Floor(300, inp.quadA.SW - 50),
                                    inp.quadA.SW + 50, OwnResolution))
       /\ CurSS \in Elements(frange(Floor(30, inp.quadA.SS - 20),
                                    inp.quadA.SS + 20, 5))
       /\ \A i \in 1..3 :
            CurRanges[i] = frange(Floor(500, InputQuad(i).SL - 50),
                                  InputQuad(i).SL + 50, OwnResolution)

ResultAssignment(r) == <<r.ST, r.SW, r.SS, r.SLs>>

\* C15: when a stage has returned, each of its results and each result
\* pooled before is in the pool that main goes on with (the ranked pool
\* after stage 3), and no two entries of that pool are the same
\* (ST, SW, SS, SL1..SL4) assignment.
C15_PooledOnce ==
  [][pc = "ret" =>
       /\ \A r \in Elements(stage_results) \cup Elements(all_results) :
            r \in Elements(all_results')
       /\ \A i, j \in 1..Len(all_results') :
            i < j => ResultAssignment(all_results'[i])
                       # ResultAssignment(all_results'[j])]_vars

====
